---- MODULE Spec2Model ----
(***************************************************************************)
(* Model of src/pages/Login.tsx: the login page of mentorly-academia.      *)
(*                                                                         *)
(* State: the ambient auth status read from useAuth() (user, isAdmin,      *)
(* authLoading), the two useState cells (isLoading, error), the two        *)
(* sessionStorage keys the page knows about, the provider calls that are   *)
(* in flight, the last toast, and two observation variables: the record of *)
(* the last handler step (last) and the log of redirect-effect runs (runs).*)
(***************************************************************************)
EXTENDS Integers, Sequences, FiniteSets, TLC

VARIABLES user, isAdmin, authLoading,
          isLoading, error, toast,
          storage,
          loginCalls, googleCalls,
          mounted, last, runs

vars == <<user, isAdmin, authLoading, isLoading, error, toast, storage,
          loginCalls, googleCalls, mounted, last, runs>>

(***************************************************************************)
(* Bounds of the model.                                                    *)
(***************************************************************************)
\* number of runs of the redirect effect that are logged
MaxRuns == 2
\* cap on the provider calls in flight at once
MaxCalls == 2

(***************************************************************************)
(* JavaScript values: string | null.                                       *)
(***************************************************************************)
Null == [type |-> "null", str |-> ""]

Str(s) == [type |-> "string", str |-> s]

\* JS truthiness of a string | null value: null and "" are falsy
Truthy(v) == v.type = "string" /\ v.str # ""

(***************************************************************************)
(* sessionStorage, restricted to the two keys of the page.                 *)
(***************************************************************************)
RedirectKey == "postLoginRedirect"

ActionKey == "postLoginAction"

StorageKeys == {RedirectKey, ActionKey}

\* sessionStorage.getItem: null when the key is absent
getItem(st, k) == st[k]

\* sessionStorage.removeItem
removeItem(st, k) == [st EXCEPT ![k] = Null]

(***************************************************************************)
(* The ambient auth status.                                                *)
(***************************************************************************)
NoUser == "absent"

Users == {NoUser, "u1"}

\* values another page may have left under postLoginRedirect
RedirectValues == {Null, Str(""), Str("/orders/42"), Str("/dashboard")}

\* values another page may have left under postLoginAction
ActionValues == {Null, Str("enroll")}

(***************************************************************************)
(* The redirect effect (useEffect, lines 27-55).  It returns the storage   *)
(* it leaves, the navigate() calls it made, and how many storage reads and *)
(* deletes it did.  navOk is whether the navigate() call goes through; the *)
(* effect has no code that depends on it.                                  *)
(***************************************************************************)
NoEffect(st) ==
    [storage |-> st, navs |-> <<>>, reads |-> 0, removes |-> 0]

\* variant: the early return on authLoading is missing
ResolverNoLoadingGuard(u, adm, ld, st, navOk) ==
    IF u = NoUser THEN NoEffect(st)
    ELSE LET redirectPath == getItem(st, RedirectKey)
             defaultTo == IF adm THEN "/admin" ELSE "/dashboard"
         IN  IF Truthy(redirectPath)
             THEN [storage |-> removeItem(st, RedirectKey),
                   navs |-> <<[path |-> redirectPath.str, replace |-> TRUE]>>,
                   reads |-> 1, removes |-> 1]
             ELSE [storage |-> st,
                   navs |-> <<[path |-> defaultTo, replace |-> TRUE]>>,
                   reads |-> 1, removes |-> 0]

\* variant: the admin default is assigned after the override
ResolverAdminAfterOverride(u, adm, ld, st, navOk) ==
    IF ld THEN NoEffect(st)
    ELSE IF u = NoUser THEN NoEffect(st)
    ELSE LET redirectPath == getItem(st, RedirectKey)
             hinted == IF Truthy(redirectPath)
                       THEN redirectPath.str ELSE "/dashboard"
             navigateTo == IF adm THEN "/admin" ELSE hinted
         IN  IF Truthy(redirectPath)
             THEN [storage |-> removeItem(st, RedirectKey),
                   navs |-> <<[path |-> navigateTo, replace |-> TRUE]>>,
                   reads |-> 1, removes |-> 1]
             ELSE [storage |-> st,
                   navs |-> <<[path |-> navigateTo, replace |-> TRUE]>>,
                   reads |-> 1, removes |-> 0]

\* variant: the hint is read but never removed
ResolverNoRemove(u, adm, ld, st, navOk) ==
    IF ld THEN NoEffect(st)
    ELSE IF u = NoUser THEN NoEffect(st)
    ELSE LET redirectPath == getItem(st, RedirectKey)
             defaultTo == IF adm THEN "/admin" ELSE "/dashboard"
         IN  IF Truthy(redirectPath)
             THEN [storage |-> st,
                   navs |-> <<[path |-> redirectPath.str, replace |-> TRUE]>>,
                   reads |-> 1, removes |-> 0]
             ELSE [storage |-> st,
                   navs |-> <<[path |-> defaultTo, replace |-> TRUE]>>,
                   reads |-> 1, removes |-> 0]

\* variant: removeItem is called with the other key
ResolverRemoveWrongKey(u, adm, ld, st, navOk) ==
    IF ld THEN NoEffect(st)
    ELSE IF u = NoUser THEN NoEffect(st)
    ELSE LET redirectPath == getItem(st, RedirectKey)
             defaultTo == IF adm THEN "/admin" ELSE "/dashboard"
         IN  IF Truthy(redirectPath)
             THEN [storage |-> removeItem(st, ActionKey),
                   navs |-> <<[path |-> redirectPath.str, replace |-> TRUE]>>,
                   reads |-> 1, removes |-> 1]
             ELSE [storage |-> st,
                   navs |-> <<[path |-> defaultTo, replace |-> TRUE]>>,
                   reads |-> 1, removes |-> 0]

\* variant: the clean-up clears the whole storage
ResolverClearsStorage(u, adm, ld, st, navOk) ==
    IF ld THEN NoEffect(st)
    ELSE IF u = NoUser THEN NoEffect(st)
    ELSE LET redirectPath == getItem(st, RedirectKey)
             defaultTo == IF adm THEN "/admin" ELSE "/dashboard"
         IN  IF Truthy(redirectPath)
             THEN [storage |-> [k \in StorageKeys |-> Null],
                   navs |-> <<[path |-> redirectPath.str, replace |-> TRUE]>>,
                   reads |-> 1, removes |-> 1]
             ELSE [storage |-> st,
                   navs |-> <<[path |-> defaultTo, replace |-> TRUE]>>,
                   reads |-> 1, removes |-> 0]

\* variant: navigate is called inside the override block only
ResolverNavigatesOnlyWithHint(u, adm, ld, st, navOk) ==
    IF ld THEN NoEffect(st)
    ELSE IF u = NoUser THEN NoEffect(st)
    ELSE LET redirectPath == getItem(st, RedirectKey)
         IN  IF Truthy(redirectPath)
             THEN [storage |-> removeItem(st, RedirectKey),
                   navs |-> <<[path |-> redirectPath.str, replace |-> TRUE]>>,
                   reads |-> 1, removes |-> 1]
             ELSE [storage |-> st, navs |-> <<>>,
                   reads |-> 1, removes |-> 0]

Resolver(u, adm, ld, st, navOk) ==
    IF ld THEN NoEffect(st)
    ELSE IF u = NoUser THEN NoEffect(st)
    ELSE LET redirectPath == getItem(st, RedirectKey)
             defaultTo == IF adm THEN "/admin" ELSE "/dashboard"
         IN  IF Truthy(redirectPath)
             THEN [storage |-> removeItem(st, RedirectKey),
                   navs |-> <<[path |-> redirectPath.str, replace |-> TRUE]>>,
                   reads |-> 1, removes |-> 1]
             ELSE [storage |-> st,
                   navs |-> <<[path |-> defaultTo, replace |-> TRUE]>>,
                   reads |-> 1, removes |-> 0]

\* the log entry of one run of the effect
RunRecord(u, adm, ld, st, navOk, r) ==
    [user |-> u, isAdmin |-> adm, loading |-> ld, before |-> st,
     after |-> r.storage, navs |-> r.navs, navOk |-> navOk,
     reads |-> r.reads, removes |-> r.removes]

\* one run of the effect against the status (u, adm, ld)
RunEffect(u, adm, ld, navOk) ==
    LET r == Resolver(u, adm, ld, storage, navOk)
    IN  /\ Len(runs) < MaxRuns
        /\ (r.navs = <<>> => navOk)
        /\ storage' = r.storage
        /\ runs' = Append(runs, RunRecord(u, adm, ld, storage, navOk, r))

(***************************************************************************)
(* Error messages of the provider, as character sequences.                 *)
(***************************************************************************)
UpperChars ==
    <<"A","B","C","D","E","F","G","H","I","J","K","L","M",
      "N","O","P","Q","R","S","T","U","V","W","X","Y","Z">>

LowerChars ==
    <<"a","b","c","d","e","f","g","h","i","j","k","l","m",
      "n","o","p","q","r","s","t","u","v","w","x","y","z">>

LowerChar(c) ==
    IF \E i \in 1..Len(UpperChars) : UpperChars[i] = c
    THEN LowerChars[CHOOSE i \in 1..Len(UpperChars) : UpperChars[i] = c]
    ELSE c

\* String.prototype.toLowerCase
toLowerCase(s) == [i \in 1..Len(s) |-> LowerChar(s[i])]

\* String.prototype.includes
includes(s, t) ==
    \E i \in 0..(Len(s) - Len(t)) : SubSeq(s, i + 1, i + Len(t)) = t

\* "email not confirmed"
PhraseNotConfirmed ==
    <<"e","m","a","i","l"," ","n","o","t"," ","c","o","n","f","i","r","m","e","d">>

\* "invalid login credentials"
PhraseInvalidCredentials ==
    <<"i","n","v","a","l","i","d"," ","l","o","g","i","n"," ","c","r","e","d","e","n","t","i","a","l","s">>

\* "Email not confirmed"
MsgEmailNotConfirmed ==
    <<"E","m","a","i","l"," ","n","o","t"," ","c","o","n","f","i","r","m","e","d">>

\* "Invalid login credentials"
MsgInvalidCredentials ==
    <<"I","n","v","a","l","i","d"," ","l","o","g","i","n"," ","c","r","e","d","e","n","t","i","a","l","s">>

\* "EMAIL NOT CONFIRMED"
MsgUpperNotConfirmed ==
    <<"E","M","A","I","L"," ","N","O","T"," ","C","O","N","F","I","R","M","E","D">>

\* "AuthApiError: invalid login credentials."
MsgWrappedInvalid ==
    <<"A","u","t","h","A","p","i","E","r","r","o","r",":"," ","i","n","v","a","l","i","d"," ","l","o","g","i","n"," ","c","r","e","d","e","n","t","i","a","l","s",".">>

\* "Invalid login credentials; Email not confirmed"
MsgBothPhrases ==
    <<"I","n","v","a","l","i","d"," ","l","o","g","i","n"," ","c","r","e","d","e","n","t","i","a","l","s",";"," ","E","m","a","i","l"," ","n","o","t"," ","c","o","n","f","i","r","m","e","d">>

\* "Network request failed"
MsgNetwork ==
    <<"N","e","t","w","o","r","k"," ","r","e","q","u","e","s","t"," ","f","a","i","l","e","d">>

\* "Email not confirme"
MsgNearMiss ==
    <<"E","m","a","i","l"," ","n","o","t"," ","c","o","n","f","i","r","m","e">>

ErrMessages ==
    {MsgEmailNotConfirmed, MsgInvalidCredentials, MsgUpperNotConfirmed,
     MsgWrappedInvalid, MsgBothPhrases, MsgNetwork, MsgNearMiss, <<>>}

\* err.message: undefined, or a string
NoMessage == [defined |-> FALSE, chars |-> <<>>]

Message(m) == [defined |-> TRUE, chars |-> m]

\* JS truthiness of err.message: undefined and "" are falsy
MessageTruthy(m) == m.defined /\ m.chars # <<>>

\* what login(email, password) can settle with
Returned(b) == [kind |-> "return", value |-> b, message |-> NoMessage]

Thrown(m) == [kind |-> "throw", value |-> FALSE, message |-> m]

LoginResults ==
    {Returned(TRUE), Returned(FALSE), Thrown(NoMessage)}
        \cup {Thrown(Message(m)) : m \in ErrMessages}

\* what signInWithGoogle() can settle with
GoogleResults == {"return", "throw"}

(***************************************************************************)
(* The inline messages and toasts of the page.                             *)
(***************************************************************************)
ErrRejected == "Login failed. Please check your credentials."

ErrUnverified == "Please verify your email address by clicking the link sent to your inbox before logging in."

ErrBadCredentials == "Invalid email or password. Please try again."

ErrUnknown == "An unexpected error occurred during login."

ErrGoogle == "Failed to sign in with Google. Please try again."

ToastUnverified == "Email not verified. Please check your inbox."

ToastBadCredentials == "Invalid email or password."

ToastUnknown == "Login failed due to an unexpected error."

(***************************************************************************)
(* onSubmit (lines 83-115), from the point where login() has settled with  *)
(* res: the try body after the await, the catch block and the finally.     *)
(* err, tst and busy are error, the toast and isLoading at that point.     *)
(***************************************************************************)
\* variant: the phrases are matched without lower-casing the message
OnSubmitCatchCaseSensitive(m, tst) ==
    IF MessageTruthy(m) /\ includes(m.chars, PhraseNotConfirmed)
    THEN [error |-> Str(ErrUnverified), toast |-> Str(ToastUnverified)]
    ELSE IF MessageTruthy(m) /\ includes(m.chars, PhraseInvalidCredentials)
    THEN [error |-> Str(ErrBadCredentials), toast |-> Str(ToastBadCredentials)]
    ELSE [error |-> Str(ErrUnknown), toast |-> Str(ToastUnknown)]

OnSubmitCatch(m, tst) ==
    IF MessageTruthy(m) /\ includes(toLowerCase(m.chars), PhraseNotConfirmed)
    THEN [error |-> Str(ErrUnverified), toast |-> Str(ToastUnverified)]
    ELSE IF MessageTruthy(m)
              /\ includes(toLowerCase(m.chars), PhraseInvalidCredentials)
    THEN [error |-> Str(ErrBadCredentials), toast |-> Str(ToastBadCredentials)]
    ELSE [error |-> Str(ErrUnknown), toast |-> Str(ToastUnknown)]

\* variant: setIsLoading(false) closes the try body instead of a finally
OnSubmitSettledNoFinally(res, err, tst, busy) ==
    LET body == IF res.kind = "return"
                THEN IF ~res.value
                     THEN [error |-> Str(ErrRejected), toast |-> tst]
                     ELSE [error |-> err, toast |-> tst]
                ELSE OnSubmitCatch(res.message, tst)
    IN  [error |-> body.error, toast |-> body.toast,
         isLoading |-> IF res.kind = "return" THEN FALSE ELSE busy,
         navs |-> <<>>]

OnSubmitSettled(res, err, tst, busy) ==
    LET body == IF res.kind = "return"
                THEN IF ~res.value
                     THEN [error |-> Str(ErrRejected), toast |-> tst]
                     ELSE [error |-> err, toast |-> tst]
                ELSE OnSubmitCatch(res.message, tst)
    IN  [error |-> body.error, toast |-> body.toast,
         isLoading |-> FALSE, navs |-> <<>>]

(***************************************************************************)
(* handleGoogleSignIn (lines 57-69), from the point where                  *)
(* signInWithGoogle() has settled.  busy is isLoading at that point.       *)
(***************************************************************************)
\* variant: the catch block does not release the loading indicator
GoogleSettledKeepsLoading(res, err, busy) ==
    IF res = "throw"
    THEN [error |-> Str(ErrGoogle), isLoading |-> busy, navs |-> <<>>]
    ELSE [error |-> err, isLoading |-> busy, navs |-> <<>>]

GoogleSettled(res, err, busy) ==
    IF res = "throw"
    THEN [error |-> Str(ErrGoogle), isLoading |-> FALSE, navs |-> <<>>]
    ELSE [error |-> err, isLoading |-> busy, navs |-> <<>>]

(***************************************************************************)
(* The disabled attribute of the two triggering controls.                  *)
(***************************************************************************)
\* <Button type="submit" disabled={isLoading}>
SubmitDisabled(busy) == busy

\* variant: the Google button carries no disabled attribute
GoogleNeverDisabled(busy) == FALSE

\* <Button onClick={handleGoogleSignIn} disabled={isLoading}>
GoogleDisabled(busy) == busy

(***************************************************************************)
(* Initial state: the page is constructed, its effect has not run yet.     *)
(***************************************************************************)
NoStep == [op |-> "none", result |-> Returned(TRUE), google |-> "return",
           navs |-> <<>>]

Init ==
    /\ user \in Users
    /\ isAdmin \in BOOLEAN
    /\ authLoading \in BOOLEAN
    /\ isLoading = FALSE
    /\ error = Null
    /\ toast = Null
    /\ storage \in [StorageKeys -> RedirectValues \cup ActionValues]
    /\ storage[RedirectKey] \in RedirectValues
    /\ storage[ActionKey] \in ActionValues
    /\ loginCalls = 0
    /\ googleCalls = 0
    /\ mounted = FALSE
    /\ last = NoStep
    /\ runs = <<>>

(***************************************************************************)
(* Actions.                                                                *)
(***************************************************************************)
\* first render: the effect runs once against the status at mount
Mount ==
    /\ ~mounted
    /\ mounted' = TRUE
    /\ \E navOk \in BOOLEAN : RunEffect(user, isAdmin, authLoading, navOk)
    /\ UNCHANGED <<user, isAdmin, authLoading, isLoading, error, toast,
                   loginCalls, googleCalls, last>>

\* the auth context publishes a new status: a dependency of the effect
\* changed, so the effect runs again against the new status
AuthStatusChange ==
    /\ mounted
    /\ \E u \in Users, adm \in BOOLEAN, ld \in BOOLEAN :
          /\ <<u, adm, ld>> # <<user, isAdmin, authLoading>>
          /\ user' = u
          /\ isAdmin' = adm
          /\ authLoading' = ld
          /\ \E navOk \in BOOLEAN : RunEffect(u, adm, ld, navOk)
    /\ UNCHANGED <<isLoading, error, toast, loginCalls, googleCalls,
                   mounted, last>>

\* the effect runs again with an unchanged status (the navigate dependency
\* changed identity, or the development double invocation of effects)
EffectRerun ==
    /\ mounted
    /\ \E navOk \in BOOLEAN : RunEffect(user, isAdmin, authLoading, navOk)
    /\ UNCHANGED <<user, isAdmin, authLoading, isLoading, error, toast,
                   loginCalls, googleCalls, mounted, last>>

\* the form is submitted with valid fields: onSubmit up to the await
SubmitClick ==
    /\ mounted
    /\ ~SubmitDisabled(isLoading)
    /\ loginCalls + googleCalls < MaxCalls
    /\ isLoading' = TRUE
    /\ error' = Null
    /\ loginCalls' = loginCalls + 1
    /\ last' = [NoStep EXCEPT !.op = "onSubmit:start"]
    /\ UNCHANGED <<user, isAdmin, authLoading, toast, storage, googleCalls,
                   mounted, runs>>

\* login() settles: the rest of onSubmit
LoginSettles ==
    /\ loginCalls > 0
    /\ \E res \in LoginResults :
          LET r == OnSubmitSettled(res, error, toast, isLoading)
          IN  /\ error' = r.error
              /\ toast' = r.toast
              /\ isLoading' = r.isLoading
              /\ last' = [op |-> "onSubmit:done", result |-> res,
                          google |-> "return", navs |-> r.navs]
    /\ loginCalls' = loginCalls - 1
    /\ UNCHANGED <<user, isAdmin, authLoading, storage, googleCalls,
                   mounted, runs>>

\* the Google button is clicked: handleGoogleSignIn up to the await
GoogleClick ==
    /\ mounted
    /\ ~GoogleDisabled(isLoading)
    /\ loginCalls + googleCalls < MaxCalls
    /\ error' = Null
    /\ isLoading' = TRUE
    /\ googleCalls' = googleCalls + 1
    /\ last' = [NoStep EXCEPT !.op = "google:start"]
    /\ UNCHANGED <<user, isAdmin, authLoading, toast, storage, loginCalls,
                   mounted, runs>>

\* signInWithGoogle() settles: the rest of handleGoogleSignIn
GoogleSettles ==
    /\ googleCalls > 0
    /\ \E res \in GoogleResults :
          LET r == GoogleSettled(res, error, isLoading)
          IN  /\ error' = r.error
              /\ isLoading' = r.isLoading
              /\ last' = [op |-> "google:done", result |-> Returned(TRUE),
                          google |-> res, navs |-> r.navs]
    /\ googleCalls' = googleCalls - 1
    /\ UNCHANGED <<user, isAdmin, authLoading, toast, storage, loginCalls,
                   mounted, runs>>

Next ==
    \/ Mount
    \/ AuthStatusChange
    \/ EffectRerun
    \/ SubmitClick
    \/ LoginSettles
    \/ GoogleClick
    \/ GoogleSettles

Spec == Init /\ [][Next]_vars

(***************************************************************************)
(* Properties.                                                             *)
(***************************************************************************)
\* the run resolved a target: auth status known and a user present
Resolves(run) == ~run.loading /\ run.user # NoUser

\* the role default of a run
RoleDefault(run) == IF run.isAdmin THEN "/admin" ELSE "/dashboard"

\* the run took its target from the stored hint
UsedHint(run) ==
    /\ Truthy(run.before[RedirectKey])
    /\ run.navs # <<>>
    /\ run.navs[1].path = run.before[RedirectKey].str

HandlerOps == {"onSubmit:start", "onSubmit:done", "google:start", "google:done"}

\* C1: a run of the redirect effect with loading = true, or with no user,
\* triggers no navigation, and no step of onSubmit or handleGoogleSignIn
\* calls navigate.
C1_NavigationOnlyFromResolver ==
    /\ \A i \in DOMAIN runs : ~Resolves(runs[i]) => runs[i].navs = <<>>
    /\ last.op \in HandlerOps => last.navs = <<>>

C1_Witness ==
    /\ \E i \in DOMAIN runs :
          runs[i].loading /\ runs[i].user # NoUser /\ runs[i].navs = <<>>
    /\ last.op = "onSubmit:done"
    /\ last.result = Returned(TRUE)

\* C2: a run with loading = false and a user present navigates once, with
\* replace = true, to the stored hint when that is present and non-empty,
\* and else to /admin for an admin and /dashboard otherwise.
C2_NavigationTarget ==
    \A i \in DOMAIN runs :
        Resolves(runs[i]) =>
            LET hint == runs[i].before[RedirectKey]
                target == IF hint.type = "string" /\ hint.str # ""
                          THEN hint.str
                          ELSE IF runs[i].isAdmin THEN "/admin"
                               ELSE "/dashboard"
            IN  runs[i].navs = <<[path |-> target, replace |-> TRUE]>>

C2_Witness ==
    \E i \in DOMAIN runs :
        /\ Resolves(runs[i])
        /\ runs[i].isAdmin
        /\ runs[i].before[RedirectKey] = Str("/orders/42")
        /\ runs[i].navs = <<[path |-> "/orders/42", replace |-> TRUE]>>

\* C3 as stated: after every run that reads postLoginRedirect the key is
\* absent from storage, whatever value it held before the run.
C3_HintAbsentAfterEveryRead ==
    \A i \in DOMAIN runs :
        runs[i].reads = 1 => runs[i].after[RedirectKey] = Null

\* C3 amended: after every run that reads postLoginRedirect and finds a
\* non-empty value, the key is absent from storage, whether or not the
\* navigation goes through; an empty-string value is left in place.
C3_NonEmptyHintClearedAfterRead ==
    \A i \in DOMAIN runs :
        runs[i].reads = 1 =>
            /\ Truthy(runs[i].before[RedirectKey])
                  => runs[i].after[RedirectKey] = Null
            /\ runs[i].before[RedirectKey] = Str("")
                  => runs[i].after[RedirectKey] = Str("")

C3_Witness ==
    \E i \in DOMAIN runs :
        /\ runs[i].reads = 1
        /\ runs[i].before[RedirectKey] = Str("/orders/42")
        /\ ~runs[i].navOk
        /\ runs[i].after[RedirectKey] = Null
        /\ storage[RedirectKey] = Null

\* C4: over the runs of the effect at most one run takes its target from
\* the stored hint, and every later run that navigates goes to the role
\* default.
C4_HintConsumedOnce ==
    /\ Cardinality({i \in DOMAIN runs : UsedHint(runs[i])}) <= 1
    /\ \A i \in DOMAIN runs : \A j \in DOMAIN runs :
          (i < j /\ UsedHint(runs[i]) /\ runs[j].navs # <<>>)
              => runs[j].navs[1].path = RoleDefault(runs[j])

C4_Witness ==
    /\ Len(runs) >= 2
    /\ UsedHint(runs[1])
    /\ runs[1].before[RedirectKey] = Str("/orders/42")
    /\ Resolves(runs[2])
    /\ runs[2].navs[1].path = RoleDefault(runs[2])

\* C5: no step of the page changes the value stored under postLoginAction.
C5_PostLoginActionUntouched ==
    [][getItem(storage', ActionKey) = getItem(storage, ActionKey)]_vars

C5_Witness ==
    /\ storage[ActionKey] = Str("enroll")
    /\ \E i \in DOMAIN runs : runs[i].removes = 1
    /\ last.op = "google:done"

\* s contains t when letter case is ignored
ContainsIgnoringCase(s, t) ==
    \E k \in 0..(Len(s) - Len(t)) :
        \A j \in 1..Len(t) :
            \/ s[k + j] = t[j]
            \/ \E n \in 1..Len(UpperChars) :
                  s[k + j] = UpperChars[n] /\ t[j] = LowerChars[n]

\* the inline message the classification of a login result calls for
ExpectedError(res) ==
    IF res.kind = "throw"
    THEN IF res.message.defined
            /\ ContainsIgnoringCase(res.message.chars, PhraseNotConfirmed)
         THEN Str(ErrUnverified)
         ELSE IF res.message.defined
                 /\ ContainsIgnoringCase(res.message.chars,
                                         PhraseInvalidCredentials)
         THEN Str(ErrBadCredentials)
         ELSE Str(ErrUnknown)
    ELSE IF res.value THEN Null ELSE Str(ErrRejected)

\* C6: when onSubmit has completed, the inline error is the one the result
\* of login() calls for: Unverified, else BadCredentials, else Unknown for
\* a thrown error; Rejected for a return of false; none for a return of true.
C6_SubmitClassification ==
    last.op = "onSubmit:done" => error = ExpectedError(last.result)

C6_Witness ==
    /\ last.op = "onSubmit:done"
    /\ last.result = Thrown(Message(MsgBothPhrases))
    /\ error = Str(ErrUnverified)

\* C7: when onSubmit has completed isLoading is false, and while a login()
\* call is in flight isLoading is true.
C7_BusyFlagCleanup ==
    /\ last.op = "onSubmit:done" => ~isLoading
    /\ loginCalls > 0 => isLoading

C7_Witness ==
    /\ last.op = "onSubmit:done"
    /\ last.result = Thrown(NoMessage)
    /\ ~isLoading

\* C8: at most one login() or signInWithGoogle() call is in flight, and
\* isLoading is true whenever one is.
C8_AtMostOneInFlight ==
    /\ loginCalls + googleCalls <= 1
    /\ loginCalls + googleCalls > 0 => isLoading

C8_Witness ==
    /\ googleCalls = 1
    /\ loginCalls = 0
    /\ isLoading
    /\ toast # Null

\* C9: starting the Google sign-in clears the error and sets isLoading; a
\* throw of signInWithGoogle() sets the Google error and clears isLoading;
\* a return leaves isLoading true and sets no error.
C9_GoogleSignIn ==
    /\ last.op = "google:start" => (error = Null /\ isLoading)
    /\ (last.op = "google:done" /\ last.google = "throw")
          => (error = Str(ErrGoogle) /\ ~isLoading)
    /\ (last.op = "google:done" /\ last.google = "return")
          => (error = Null /\ isLoading)

C9_Witness ==
    /\ last.op = "google:done"
    /\ last.google = "throw"
    /\ error = Str(ErrGoogle)
    /\ ~isLoading

\* two consecutive runs against the same status
SameStatus(a, b) ==
    a.user = b.user /\ a.isAdmin = b.isAdmin /\ a.loading = b.loading

\* C10: with no hint stored, two runs in a row against the same status
\* trigger the same navigation and leave the storage as one run does; a run
\* that resolves does one storage read, at most one delete and exactly one
\* navigation, with replace = true.
C10_IdempotentWithoutHint ==
    /\ \A i \in DOMAIN runs :
          Resolves(runs[i]) =>
              /\ runs[i].reads = 1
              /\ runs[i].removes <= 1
              /\ Len(runs[i].navs) = 1
              /\ runs[i].navs[1].replace
    /\ \A i \in DOMAIN runs :
          (/\ i + 1 \in DOMAIN runs
           /\ SameStatus(runs[i], runs[i + 1])
           /\ runs[i].before[RedirectKey] = Null)
              => /\ runs[i + 1].navs = runs[i].navs
                 /\ runs[i + 1].after = runs[i].after

C10_Witness ==
    /\ Len(runs) >= 2
    /\ SameStatus(runs[1], runs[2])
    /\ Resolves(runs[1])
    /\ runs[1].before[RedirectKey] = Null
    /\ runs[2].navs = runs[1].navs
    /\ runs[2].navs = <<[path |-> "/admin", replace |-> TRUE]>>
====
